---- MODULE Spec2Model ----
(***************************************************************************)
(* Model of the Fury DAG engine of server/fury/base.py: the nested-path    *)
(* accessors, topological_sort, Chain construction, Node.__call__ and      *)
(* Chain.__call__, together with the shared Var.value attribute that the  *)
(* output projection writes.                                               *)
(***************************************************************************)
EXTENDS Integers, Sequences, FiniteSets, TLC

VARIABLES chain, varValue, runs, calls, probe

vars == <<chain, varValue, runs, calls, probe>>

(***************************************************************************)
(* Bounds of the model.                                                    *)
(***************************************************************************)
\* longest edge list handed to topological_sort in SpecTopo
MaxEdges == 3
\* number of Chain.call / Node.call executions started in one behaviour
MaxCalls == 2
\* longest sequence inside a structure handed to put_value_by_keys
MaxLen == 2
\* longest path handed to put_value_by_keys
MaxPath == 3
\* most items of a payload schema and most names of a returns mapping handed
\* to func_to_return_vars
MaxItems == 3

(***************************************************************************)
(* Values: the payloads of node callables are nested structures of         *)
(* mappings, sequences and scalars; None is Null.                          *)
(***************************************************************************)
Null == [t |-> "null"]
Str(s) == [t |-> "str", s |-> s]
Dict(f) == [t |-> "dict", d |-> f]
List(q) == [t |-> "list", l |-> q]

\* the empty mapping {}
EmptyMap == [k \in {} |-> Null]

\* d[k] = v on a mapping (a dict assignment: insert or overwrite)
MapPut(d, k, v) == [x \in (DOMAIN d) \cup {k} |-> IF x = k THEN v ELSE d[x]]

\* path segments: a string key or an integer index
SKey(s) == [k |-> "s", s |-> s]
IKey(i) == [k |-> "i", i |-> i]

\* the exception a helper raises instead of returning
Raised(kind) == [t |-> "raised", kind |-> kind]
IsRaised(v) == v.t = "raised"

\* int(key) succeeds: an int stays, a numeric string converts; on any other
\* string int() raises ValueError
CanInt(key) == key.k = "i" \/ key.s \in {"0", "1", "2"}

IntOf(key) ==
  IF key.k = "i" THEN key.i
  ELSE IF key.s = "0" THEN 0
  ELSE IF key.s = "1" THEN 1
  ELSE 2

\* the key of a mapping: a string as it is, an int marked as a number (the
\* int 0 and the string "0" are different keys)
KeyName(key) == IF key.k = "s" THEN key.s ELSE "#" \o ToString(key.i)

\* obj.get(key)
DictGet(f, key) ==
  IF KeyName(key) \in DOMAIN f THEN f[KeyName(key)] ELSE Null

RECURSIVE get_value_by_keys(_, _)
get_value_by_keys(obj, keys) ==
  IF keys = <<>> THEN obj
  ELSE IF obj.t = "dict" THEN
    get_value_by_keys(DictGet(obj.d, Head(keys)), Tail(keys))
  ELSE IF obj.t = "list" THEN
    IF ~CanInt(Head(keys)) THEN Raised("ValueError")
    ELSE LET key == IntOf(Head(keys)) IN
      IF 0 <= key /\ key < Len(obj.l)
        THEN get_value_by_keys(obj.l[key + 1], Tail(keys))
        ELSE Null
  ELSE Null

\* isinstance(v, (dict, list))
IsContainer(v) == v.t \in {"dict", "list"}

\* {} if isinstance(keys[1], str) else []
FreshFor(next_key) == IF next_key.k = "s" THEN Dict(EmptyMap) ELSE List(<<>>)

\* the structure obj after put_value_by_keys(obj, keys, value) has written
\* into it
RECURSIVE put_value_by_keys(_, _, _)
put_value_by_keys(obj, keys, value) ==
  IF keys = <<>> THEN obj
  ELSE LET key == Head(keys) IN
    IF Len(keys) = 1 THEN
      IF obj.t = "dict" THEN Dict(MapPut(obj.d, KeyName(key), value))
      ELSE IF obj.t = "list" /\ key.k = "i" /\ 0 <= key.i /\ key.i < Len(obj.l)
        THEN List([obj.l EXCEPT ![key.i + 1] = value])
      ELSE obj
    ELSE
      IF obj.t = "dict" THEN
        LET old == DictGet(obj.d, key)
            child == IF KeyName(key) \notin DOMAIN obj.d \/ ~IsContainer(old)
                       THEN FreshFor(keys[2]) ELSE old
        IN Dict(MapPut(obj.d, KeyName(key), put_value_by_keys(child, Tail(keys), value)))
      ELSE IF obj.t = "list" /\ key.k = "i" /\ 0 <= key.i /\ key.i < Len(obj.l) THEN
        LET old == obj.l[key.i + 1]
            child == IF ~IsContainer(old) THEN FreshFor(keys[2]) ELSE old
        IN List([obj.l EXCEPT ![key.i + 1] = put_value_by_keys(child, Tail(keys), value)])
      ELSE obj

(***************************************************************************)
(* Edges and topological_sort.                                             *)
(***************************************************************************)
\* the node ids of the registry
NodeIds == {"P1", "P2", "P3"}

Edge(src, trg, conns) ==
  [src_node_id |-> src, trg_node_id |-> trg, connections |-> conns]

\* the adjacency dict: keys in insertion order, lists[src] the targets of
\* src in edge order
RECURSIVE AdjacencyFrom(_, _, _)
AdjacencyFrom(edges, i, adj) ==
  IF i > Len(edges) THEN adj
  ELSE LET src == edges[i].src_node_id
           dst == edges[i].trg_node_id
           seen == src \in DOMAIN adj.lists
           old == IF seen THEN adj.lists[src] ELSE <<>>
       IN AdjacencyFrom(edges, i + 1,
            [keys |-> IF seen THEN adj.keys ELSE Append(adj.keys, src),
             lists |-> MapPut(adj.lists, src, Append(old, dst))])

edge_array_to_adjacency_list(edges) ==
  AdjacencyFrom(edges, 1, [keys |-> <<>>, lists |-> [k \in {} |-> <<>>]])

\* for src, dsts in adjacency_lists.items(): for dst in dsts: in_degree[dst] += 1
RECURSIVE CountTargets(_, _, _)
CountTargets(dsts, j, indeg) ==
  IF j > Len(dsts) THEN indeg
  ELSE CountTargets(dsts, j + 1, [indeg EXCEPT ![dsts[j]] = @ + 1])

RECURSIVE InDegreeFrom(_, _, _)
InDegreeFrom(adj, i, indeg) ==
  IF i > Len(adj.keys) THEN indeg
  ELSE InDegreeFrom(adj, i + 1, CountTargets(adj.lists[adj.keys[i]], 1, indeg))

\* in_degree is a defaultdict(int): every id not yet counted reads as 0
InDegree(adj) == InDegreeFrom(adj, 1, [n \in NodeIds |-> 0])

\* the seeding with appendleft: the sources end in reverse order
RECURSIVE SeedQueue_AppendLeft(_, _, _, _)
SeedQueue_AppendLeft(adj, indeg, i, queue) ==
  IF i > Len(adj.keys) THEN queue
  ELSE SeedQueue_AppendLeft(adj, indeg, i + 1,
         IF indeg[adj.keys[i]] = 0 THEN <<adj.keys[i]>> \o queue ELSE queue)

\* the queue of the sources with no incoming edge, in adjacency-key order
RECURSIVE SeedQueue(_, _, _, _)
SeedQueue(adj, indeg, i, queue) ==
  IF i > Len(adj.keys) THEN queue
  ELSE SeedQueue(adj, indeg, i + 1,
         IF indeg[adj.keys[i]] = 0 THEN Append(queue, adj.keys[i]) ELSE queue)

\* for neighbor in neighbours: in_degree[neighbor] -= 1; enqueue at zero
RECURSIVE Relax(_, _, _, _)
Relax(neighbours, j, indeg, queue) ==
  IF j > Len(neighbours) THEN [in_degree |-> indeg, queue |-> queue]
  ELSE LET nb == neighbours[j]
           d == indeg[nb] - 1
       IN Relax(neighbours, j + 1, [indeg EXCEPT ![nb] = d],
                IF d = 0 THEN Append(queue, nb) ELSE queue)

\* the loop with each popped node put in front of sorted_list
RECURSIVE KahnLoop_EmitInFront(_, _, _, _, _)
KahnLoop_EmitInFront(adj, queue, sorted_list, indeg, edge_nodes_cntr) ==
  IF queue = <<>> THEN [sorted_list |-> sorted_list, edge_nodes_cntr |-> edge_nodes_cntr]
  ELSE LET node == Head(queue)
           neighbours == IF node \in DOMAIN adj.lists THEN adj.lists[node] ELSE <<>>
           r == Relax(neighbours, 1, indeg, Tail(queue))
       IN KahnLoop_EmitInFront(adj, r.queue, <<node>> \o sorted_list, r.in_degree,
                   IF neighbours = <<>> THEN edge_nodes_cntr + 1 ELSE edge_nodes_cntr)

\* while queue: pop, emit, count a node without neighbours, relax the rest
RECURSIVE KahnLoop(_, _, _, _, _)
KahnLoop(adj, queue, sorted_list, indeg, edge_nodes_cntr) ==
  IF queue = <<>> THEN [sorted_list |-> sorted_list, edge_nodes_cntr |-> edge_nodes_cntr]
  ELSE LET node == Head(queue)
           neighbours == IF node \in DOMAIN adj.lists THEN adj.lists[node] ELSE <<>>
           r == Relax(neighbours, 1, indeg, Tail(queue))
       IN KahnLoop(adj, r.queue, Append(sorted_list, node), r.in_degree,
                   IF neighbours = <<>> THEN edge_nodes_cntr + 1 ELSE edge_nodes_cntr)

\* the sort without the final test of the lengths
topological_sort_NoLengthTest(edges) ==
  LET adj == edge_array_to_adjacency_list(edges)
      indeg == InDegree(adj)
      k == KahnLoop(adj, SeedQueue(adj, indeg, 1, <<>>), <<>>, indeg, 0)
  IN [ok |-> TRUE, order |-> k.sorted_list]

\* the sort with the terminal nodes left out of the expected length
topological_sort_NoTerminalCount(edges) ==
  LET adj == edge_array_to_adjacency_list(edges)
      indeg == InDegree(adj)
      k == KahnLoop(adj, SeedQueue(adj, indeg, 1, <<>>), <<>>, indeg, 0)
  IN IF Len(k.sorted_list) = Len(adj.keys)
       THEN [ok |-> TRUE, order |-> k.sorted_list]
       ELSE [ok |-> FALSE, order |-> <<>>]

\* the result: ok with the order, or NotDAGError
topological_sort(edges) ==
  LET adj == edge_array_to_adjacency_list(edges)
      indeg == InDegree(adj)
      k == KahnLoop(adj, SeedQueue(adj, indeg, 1, <<>>), <<>>, indeg, 0)
  IN IF Len(k.sorted_list) = Len(adj.keys) + k.edge_nodes_cntr
       THEN [ok |-> TRUE, order |-> k.sorted_list]
       ELSE [ok |-> FALSE, order |-> <<>>]

(***************************************************************************)
(* Chain construction.  The variable chain holds the outcome of            *)
(* Chain(nodes, edges): the arguments, the status ("none" before the       *)
(* constructor ran, "ok", or the error raised) and topo_order.             *)
(***************************************************************************)
\* the ids of a sequence, as a set
Range(q) == {q[i] : i \in 1..Len(q)}

NoChain == [status |-> "none", nodes |-> {}, edges |-> <<>>, topo_order |-> <<>>]

\* the constructor without the assertion on the ids of topo_order
ChainInit_NoAssert(nodes, edges) ==
  LET t == topological_sort(edges) IN
    IF ~t.ok THEN
      [status |-> "NotDAGError", nodes |-> nodes, edges |-> edges, topo_order |-> <<>>]
    ELSE
      [status |-> "ok", nodes |-> nodes, edges |-> edges, topo_order |-> t.order]

\* the constructor that, without edges, orders the nodes as they are given
ChainInit_OrderFromNodes(nodes, edges) ==
  LET t == topological_sort(edges)
      given == SelectSeq(<<"P1", "P2", "P3">>, LAMBDA n : n \in nodes)
  IN
    IF ~t.ok THEN
      [status |-> "NotDAGError", nodes |-> nodes, edges |-> edges, topo_order |-> <<>>]
    ELSE IF \E i \in 1..Len(t.order) : t.order[i] \notin nodes THEN
      [status |-> "MissingNode", nodes |-> nodes, edges |-> edges, topo_order |-> <<>>]
    ELSE
      [status |-> "ok", nodes |-> nodes, edges |-> edges,
       topo_order |-> IF t.order = <<>> THEN given ELSE t.order]

ChainInit(nodes, edges) ==
  LET t == topological_sort(edges) IN
    IF ~t.ok THEN
      [status |-> "NotDAGError", nodes |-> nodes, edges |-> edges, topo_order |-> <<>>]
    ELSE IF \E i \in 1..Len(t.order) : t.order[i] \notin nodes THEN
      [status |-> "MissingNode", nodes |-> nodes, edges |-> edges, topo_order |-> <<>>]
    ELSE
      [status |-> "ok", nodes |-> nodes, edges |-> edges, topo_order |-> t.order]

\* edge lists without connections, as adjacency_list_to_edge_map builds them
BareEdges == {Edge(s, d, <<>>) : s \in NodeIds, d \in NodeIds}

EdgeLists == UNION {[1..n -> BareEdges] : n \in 0..MaxEdges}

(***************************************************************************)
(* The registered nodes.  Each node wraps a callable with its declared     *)
(* fields and its output Vars (name and _loc).                             *)
(***************************************************************************)
Var(name, loc) == [name |-> name, loc |-> loc]

\* Node.fields, by name
Fields(n) ==
  IF n = "P1" THEN <<"url">>
  ELSE IF n = "P2" THEN <<"text", "pattern", "repl">>
  ELSE <<"text", "url">>

\* Node.outputs
Outputs(n) ==
  IF n = "P1" THEN <<Var("text", <<SKey("text")>>), Var("code", <<SKey("meta"), IKey(0)>>)>>
  ELSE IF n = "P2" THEN <<Var("text", <<SKey("text")>>)>>
  ELSE <<Var("text", <<SKey("0")>>), Var("echo", <<SKey("u")>>)>>

FnResult(payload, err) == [payload |-> payload, err |-> err]

\* P1 fetches a url: the text is the url's content, "bad" is an HTTP error,
\* "empty" a response without text
FnP1(data) ==
  IF "url" \notin DOMAIN data THEN FnResult(Null, "TypeError")
  ELSE IF data["url"] = Str("bad") THEN FnResult(Str("traceback"), "HTTPError")
  ELSE IF data["url"] = Str("empty") THEN
    FnResult(Dict([k \in {"meta"} |-> List(<<Str("204")>>)]), "none")
  ELSE FnResult(Dict([k \in {"text", "meta"} |->
                        IF k = "text" THEN data["url"] ELSE List(<<Str("200")>>)]), "none")

\* P2 substitutes repl for a text that matches pattern
FnP2(data) ==
  IF {"text", "pattern", "repl"} \subseteq DOMAIN data THEN
    FnResult(Dict([k \in {"text"} |->
                     IF data["text"] = data["pattern"] THEN data["repl"] ELSE data["text"]]),
             "none")
  ELSE FnResult(Null, "TypeError")

\* P3 answers a list without a url and a mapping with one
FnP3(data) ==
  IF "text" \notin DOMAIN data THEN FnResult(Null, "TypeError")
  ELSE IF "url" \notin DOMAIN data THEN FnResult(List(<<data["text"]>>), "none")
  ELSE FnResult(Dict([k \in {"0", "u"} |-> IF k = "0" THEN data["text"] ELSE data["url"]]),
                "none")

\* self.fn(**data)
Fn(n, data) ==
  IF n = "P1" THEN FnP1(data) ELSE IF n = "P2" THEN FnP2(data) ELSE FnP3(data)

\* Node.has_field
has_field(n, field) == \E i \in 1..Len(Fields(n)) : Fields(n)[i] = field

\* set([x.name for x in self.fields])
template_keys(n) == Range(Fields(n))

\* the difference taken the other way round
unknown_keys_Swapped(n, data) == template_keys(n) \ (DOMAIN data)

\* data_keys - template_keys
unknown_keys(n, data) == (DOMAIN data) \ template_keys(n)

(***************************************************************************)
(* Errors: a kind and the names the message carries.                       *)
(***************************************************************************)
Err(kind, info) == [kind |-> kind, info |-> info]
NoErr == Err("none", {})

\* out: None, a mapping of projected outputs, or a traceback string
OutNone == [k |-> "none"]
OutMap(m) == [k |-> "map", m |-> m]
OutTb == [k |-> "traceback"]

\* f"{node_id}/{name}"
IrKey(node_id, name) == node_id \o "/" \o name

\* full_ir.get(req_key, None)
IrGet(full_ir, key) == IF key \in DOMAIN full_ir THEN full_ir[key] ELSE Null

\* the connections of the incoming edges of node_id, in edge order, each as
\* the IR key read and the field bound
RECURSIVE ConnsOf(_, _, _)
ConnsOf(src, conns, j) ==
  IF j > Len(conns) THEN <<>>
  ELSE <<[req_key |-> IrKey(src, conns[j][1]), field |-> conns[j][2]]>>
       \o ConnsOf(src, conns, j + 1)

RECURSIVE Incoming(_, _, _)
Incoming(edges, node_id, i) ==
  IF i > Len(edges) THEN <<>>
  ELSE (IF edges[i].trg_node_id = node_id
          THEN ConnsOf(edges[i].src_node_id, edges[i].connections, 1)
          ELSE <<>>)
       \o Incoming(edges, node_id, i + 1)

\* the loop over the connections: the first missing key raises, otherwise
\* _data[conns[1]] = ir_value
RECURSIVE BindIncoming(_, _, _, _)
BindIncoming(reqs, i, full_ir, data) ==
  IF i > Len(reqs) THEN [err |-> NoErr, data |-> data]
  ELSE LET ir_value == IrGet(full_ir, reqs[i].req_key) IN
    IF ir_value = Null
      THEN [err |-> Err("MissingIntermediate", {reqs[i].req_key}), data |-> data]
      ELSE BindIncoming(reqs, i + 1, full_ir, MapPut(data, reqs[i].field, ir_value))

\* the shared inputs copied only where no edge has bound the field
SharedInputs_EdgeFirst(n, inputs, data) ==
  [k \in (DOMAIN data) \cup {x \in DOMAIN inputs : has_field(n, x)} |->
     IF k \in DOMAIN data THEN data[k] ELSE inputs[k]]

\* for k in all_keys: if node.has_field(k): _data[k] = data[k]
SharedInputs(n, inputs, data) ==
  [k \in (DOMAIN data) \cup {x \in DOMAIN inputs : has_field(n, x)} |->
     IF k \in DOMAIN inputs /\ has_field(n, k) THEN inputs[k] ELSE data[k]]

\* the mapping with the first output's value under every name
Collected_FirstValue(n, values) ==
  [name \in {Outputs(n)[j].name : j \in 1..Len(Outputs(n))} |-> values[1]]

\* {o.name: o.value for o in self.outputs}: a later output of the same name
\* overwrites an earlier one
Collected(n, values) ==
  LET outs == Outputs(n)
      Last(name) == CHOOSE j \in 1..Len(outs) :
                      /\ outs[j].name = name
                      /\ \A i \in 1..Len(outs) : outs[i].name = name => i <= j
  IN [name \in {outs[j].name : j \in 1..Len(outs)} |-> values[Last(name)]]

\* the loop over out.items() left after its first item
WriteIR_FirstOnly(full_ir, node_id, out, names) ==
  IF names = {} THEN full_ir
  ELSE LET k == CHOOSE x \in names : TRUE IN MapPut(full_ir, IrKey(node_id, k), out[k])

\* for k, v in out.items(): full_ir[f"{node_id}/{k}"] = v
RECURSIVE WriteIR(_, _, _, _)
WriteIR(full_ir, node_id, out, names) ==
  IF names = {} THEN full_ir
  ELSE LET k == CHOOSE x \in names : TRUE IN
    WriteIR(MapPut(full_ir, IrKey(node_id, k), out[k]), node_id, out, names \ {k})

(***************************************************************************)
(* The chains built and the inputs passed.                                 *)
(***************************************************************************)
Chain(nodes, edges) == [nodes |-> nodes, edges |-> edges]

ChainFixtures ==
  { \* two stages: P1 -> P2 on (text, text)
    Chain({"P1", "P2"}, <<Edge("P1", "P2", <<<<"text", "text">>>>)>>),
    \* three stages in a line
    Chain(NodeIds, <<Edge("P1", "P2", <<<<"text", "text">>>>),
                     Edge("P2", "P3", <<<<"text", "text">>>>)>>),
    \* fan-out
    Chain(NodeIds, <<Edge("P1", "P2", <<<<"text", "text">>>>),
                     Edge("P1", "P3", <<<<"code", "text">>>>)>>),
    \* fan-in
    Chain(NodeIds, <<Edge("P1", "P3", <<<<"text", "text">>>>),
                     Edge("P2", "P3", <<<<"text", "url">>>>)>>),
    \* one edge with two connections
    Chain(NodeIds, <<Edge("P1", "P3", <<<<"text", "text">>, <<"code", "url">>>>)>>),
    \* an output of P1 that no edge reads
    Chain(NodeIds, <<Edge("P1", "P3", <<<<"code", "text">>>>)>>),
    \* an output name P1 does not declare
    Chain({"P1", "P2"}, <<Edge("P1", "P2", <<<<"nope", "text">>>>)>>),
    \* a field P3 does not declare
    Chain({"P1", "P3"}, <<Edge("P1", "P3", <<<<"text", "bogus">>>>)>>),
    \* a 2-cycle
    Chain({"P1", "P2"}, <<Edge("P1", "P2", <<<<"text", "text">>>>),
                          Edge("P2", "P1", <<<<"text", "url">>>>)>>),
    \* an edge to a node that is not given
    Chain({"P1"}, <<Edge("P1", "P2", <<<<"text", "text">>>>)>>),
    \* no edges
    Chain(NodeIds, <<>>) }

\* an input mapping: "-" leaves the key out
InputOf(u, t, p) ==
  [k \in (IF u # "-" THEN {"url"} ELSE {}) \cup (IF t # "-" THEN {"text"} ELSE {})
         \cup (IF p THEN {"pattern", "repl"} ELSE {}) |->
     IF k = "url" THEN Str(u)
     ELSE IF k = "text" THEN Str(t)
     ELSE IF k = "pattern" THEN Str("x")
     ELSE Str("A")]

Inputs == {InputOf(u, t, p) : u \in {"-", "x", "y", "bad", "empty"}, t \in {"-", "x"},
                              p \in BOOLEAN}

\* the inputs of the interleaved executions
ConcInputs == {InputOf(u, "-", TRUE) : u \in {"x", "y", "bad"}}

\* the data of a direct Node call: also with a key no node declares
NodeDatas == Inputs \cup {MapPut(d, "b", Str("2")) : d \in Inputs}

(***************************************************************************)
(* The executions.  runs[r] is one execution of Chain.__call__ (mode       *)
(* "chain") or of Node.__call__ (mode "node"); varValue[n][j] is the value *)
(* attribute of the j-th output Var of node n, shared by all executions.   *)
(***************************************************************************)
Runs == {"r1", "r2"}

IdleRun ==
  [pc |-> "idle", mode |-> "none", inputs |-> EmptyMap, given |-> EmptyMap,
   idx |-> 0, node |-> "", ret_fields |-> FALSE, full_ir |-> EmptyMap,
   data |-> EmptyMap, payload |-> Null, oi |-> 0, out |-> OutNone, err |-> NoErr,
   invoked |-> <<>>]

\* no helper function is under test
NoProbe == [kind |-> "none"]

Init ==
  /\ chain = NoChain
  /\ varValue = [n \in NodeIds |-> [j \in 1..Len(Outputs(n)) |-> Null]]
  /\ runs = [r \in Runs |-> IdleRun]
  /\ calls = 0
  /\ probe = NoProbe

\* Chain.__init__
Construct(nodes, edges) ==
  /\ chain.status = "none"
  /\ chain' = ChainInit(nodes, edges)
  /\ UNCHANGED <<varValue, runs, calls, probe>>

ConstructFixture == \E c \in ChainFixtures : Construct(c.nodes, c.edges)

\* the node lists handed to the constructor beside the edge lists
NodeSets == {NodeIds, {"P1", "P2"}, {"P1"}}

ConstructAny == \E nodes \in NodeSets, edges \in EdgeLists : Construct(nodes, edges)

\* Chain.__call__ entered: full_ir = {}, out = None
StartChainCall(r, inputs) ==
  /\ chain.status = "ok"
  /\ runs[r].pc = "idle"
  /\ calls < MaxCalls
  /\ calls' = calls + 1
  /\ runs' = [runs EXCEPT ![r] = [IdleRun EXCEPT !.pc = "loop", !.mode = "chain",
                                    !.inputs = inputs, !.given = inputs, !.idx = 1]]
  /\ UNCHANGED <<chain, varValue, probe>>

\* Node.__call__ entered by a direct caller
StartNodeCall(r, n, data, ret_fields) ==
  /\ runs[r].pc = "idle"
  /\ calls < MaxCalls
  /\ calls' = calls + 1
  /\ runs' = [runs EXCEPT ![r] = [IdleRun EXCEPT !.pc = "call", !.mode = "node",
                                    !.node = n, !.data = data, !.given = data,
                                    !.ret_fields = ret_fields]]
  /\ UNCHANGED <<chain, varValue, probe>>

\* the error returned by the node and not raised by the chain
NodeFails_NotRaised(run, e) ==
  [run EXCEPT !.out = OutTb, !.err = e, !.pc = "done"]

\* Node.__call__ returns (tb, e); Chain.__call__ raises e
NodeFails(run, e) ==
  [run EXCEPT !.out = OutTb, !.err = e,
              !.pc = IF run.mode = "chain" THEN "failed" ELSE "done"]

\* the head of the loop over topo_order: the node's _data is bound from the
\* incoming edges and the shared inputs
Bind(r) ==
  LET run == runs[r] IN
  /\ run.pc = "loop"
  /\ run.idx <= Len(chain.topo_order)
  /\ LET node_id == chain.topo_order[run.idx]
         b == BindIncoming(Incoming(chain.edges, node_id, 1), 1, run.full_ir, EmptyMap)
     IN runs' = [runs EXCEPT ![r] =
          IF b.err # NoErr
            THEN [run EXCEPT !.node = node_id, !.data = b.data, !.err = b.err,
                             !.pc = "failed"]
            ELSE [run EXCEPT !.node = node_id, !.ret_fields = TRUE,
                             !.data = SharedInputs(node_id, run.inputs, b.data),
                             !.pc = "call"]]
  /\ UNCHANGED <<chain, varValue, calls, probe>>

\* return out, full_ir
Return(r) ==
  LET run == runs[r] IN
  /\ run.pc = "loop"
  /\ run.idx > Len(chain.topo_order)
  /\ runs' = [runs EXCEPT ![r].pc = "done"]
  /\ UNCHANGED <<chain, varValue, calls, probe>>

\* Node.__call__ up to the callable: the key check, then self.fn(**data)
Invoke(r) ==
  LET run == runs[r]
      unknown == unknown_keys(run.node, run.data)
      res == Fn(run.node, run.data)
  IN
  /\ run.pc = "call"
  /\ runs' = [runs EXCEPT ![r] =
       IF unknown # {} THEN NodeFails(run, Err("UnknownInputs", unknown))
       ELSE LET called == [run EXCEPT !.invoked =
                             Append(@, [node |-> run.node, data |-> run.data,
                                        payload |-> res.payload, err |-> res.err])]
            IN IF res.err # "none" THEN NodeFails(called, Err(res.err, {}))
               ELSE [called EXCEPT !.payload = res.payload, !.oi = 1, !.pc = "project"]]
  /\ UNCHANGED <<chain, varValue, calls, probe>>

\* o.set_value(get_value_by_keys(out, o._loc)) for the next output o
Project(r) ==
  LET run == runs[r]
      outs == Outputs(run.node)
  IN
  /\ run.pc = "project"
  /\ run.oi <= Len(outs)
  /\ LET v == get_value_by_keys(run.payload, outs[run.oi].loc) IN
       IF IsRaised(v)
         THEN /\ runs' = [runs EXCEPT ![r] = NodeFails(run, Err(v.kind, {}))]
              /\ UNCHANGED varValue
         ELSE /\ varValue' = [varValue EXCEPT ![run.node][run.oi] = v]
              /\ runs' = [runs EXCEPT ![r].oi = run.oi + 1]
  /\ UNCHANGED <<chain, calls, probe>>

\* return {o.name: o.value for o in self.outputs}, None
Collect(r) ==
  LET run == runs[r] IN
  /\ run.pc = "project"
  /\ run.oi > Len(Outputs(run.node))
  /\ runs' = [runs EXCEPT ![r] =
       [run EXCEPT !.out = OutMap(Collected(run.node, varValue[run.node])),
                   !.pc = IF run.mode = "chain" THEN "write" ELSE "done"]]
  /\ UNCHANGED <<chain, varValue, calls, probe>>

\* the projected outputs are written to full_ir; on to the next node
Write(r) ==
  LET run == runs[r] IN
  /\ run.pc = "write"
  /\ runs' = [runs EXCEPT ![r] =
       [run EXCEPT !.full_ir = WriteIR(run.full_ir, run.node, run.out.m, DOMAIN run.out.m),
                   !.idx = run.idx + 1, !.pc = "loop"]]
  /\ UNCHANGED <<chain, varValue, calls, probe>>

\* the caller has taken the result or the error
Finish(r) ==
  /\ runs[r].pc \in {"done", "failed"}
  /\ runs' = [runs EXCEPT ![r] = IdleRun]
  /\ UNCHANGED <<chain, varValue, calls, probe>>

Step(r) ==
  \/ \E inputs \in Inputs : StartChainCall(r, inputs)
  \/ \E n \in NodeIds, data \in NodeDatas, ret_fields \in BOOLEAN :
       StartNodeCall(r, n, data, ret_fields)
  \/ Bind(r)
  \/ Return(r)
  \/ Invoke(r)
  \/ Project(r)
  \/ Collect(r)
  \/ Write(r)
  \/ Finish(r)

\* one execution at a time
Next == ConstructFixture \/ Step("r1")

Spec == Init /\ [][Next]_vars

\* two executions interleaved
StepConc(r) ==
  \/ \E inputs \in ConcInputs : StartChainCall(r, inputs)
  \/ Bind(r)
  \/ Return(r)
  \/ Invoke(r)
  \/ Project(r)
  \/ Collect(r)
  \/ Write(r)
  \/ Finish(r)

NextConc == ConstructFixture \/ \E r \in Runs : StepConc(r)

SpecConc == Init /\ [][NextConc]_vars

\* every edge list up to MaxEdges is handed to the constructor
NextTopo == ConstructAny

SpecTopo == Init /\ [][NextTopo]_vars

(***************************************************************************)
(* Graph notions the properties of topological_sort are stated with.       *)
(***************************************************************************)
\* the targets of the edges that leave a node of S
Successors(edges, S) ==
  {edges[i].trg_node_id : i \in {j \in 1..Len(edges) : edges[j].src_node_id \in S}}

RECURSIVE ReachableFrom(_, _)
ReachableFrom(edges, S) ==
  LET T == S \cup Successors(edges, S) IN
    IF T = S THEN S ELSE ReachableFrom(edges, T)

\* some node reaches itself along one or more edges
HasCycle(edges) ==
  \E n \in NodeIds : n \in ReachableFrom(edges, Successors(edges, {n}))

\* C2: Topological soundness. Whenever the construction of a Chain succeeds,
\* the source of every edge of its edge list stands strictly before the
\* edge's target in topo_order.
C2_TopologicalSoundness ==
  chain.status = "ok" =>
    \A e \in 1..Len(chain.edges) :
      LET u == chain.edges[e].src_node_id
          v == chain.edges[e].trg_node_id
          order == chain.topo_order
      IN /\ u \in Range(order)
         /\ v \in Range(order)
         /\ \A i, j \in 1..Len(order) : (order[i] = u /\ order[j] = v) => i < j

\* a chain accepted although its edges list the later edge first
C2_Witness ==
  /\ chain.status = "ok"
  /\ chain.edges = <<Edge("P2", "P3", <<>>), Edge("P1", "P3", <<>>), Edge("P1", "P2", <<>>)>>
  /\ chain.topo_order = <<"P1", "P2", "P3">>

\* C3: Cycle rejection. Whenever the edge list handed to the constructor has
\* a cycle (a self-loop, a 2-cycle, a cycle beside acyclic parts and
\* terminal nodes), the construction fails with NotDAGError and produces no
\* Chain.
C3_CycleRejection ==
  (chain.status # "none" /\ HasCycle(chain.edges)) =>
    (chain.status = "NotDAGError" /\ chain.topo_order = <<>>)

\* rejected: a self-loop on P2, entered from the source P1 and left to the
\* terminal node P3
C3_Witness ==
  /\ chain.status = "NotDAGError"
  /\ chain.edges = <<Edge("P1", "P2", <<>>), Edge("P2", "P2", <<>>), Edge("P2", "P3", <<>>)>>

(***************************************************************************)
(* Properties of one execution at a time (Spec).                           *)
(***************************************************************************)
TheRun == runs["r1"]

\* the IR keys a complete execution owes: one per node of topo_order and
\* declared output of it
OwedKeys ==
  UNION {{IrKey(chain.topo_order[i], Outputs(chain.topo_order[i])[j].name) :
            j \in 1..Len(Outputs(chain.topo_order[i]))} :
         i \in 1..Len(chain.topo_order)}

\* C1: A successful Chain.call returns an IR map that holds, for every node
\* of topo_order and every declared output o of it, under the key
\* "<node_id>/<o.name>" the value get_value_by_keys(payload of the node,
\* o._loc), and no other key; the returned output is the projected output
\* mapping of the last node of topo_order.
C1_ReturnedIR ==
  (TheRun.mode = "chain" /\ TheRun.pc = "done") =>
    LET order == chain.topo_order
        log == TheRun.invoked
        Projected(i, j) == get_value_by_keys(log[i].payload, Outputs(order[i])[j].loc)
    IN /\ Len(log) = Len(order)
       /\ \A i \in 1..Len(order) :
            /\ log[i].node = order[i]
            /\ \A j \in 1..Len(Outputs(order[i])) :
                 LET key == IrKey(order[i], Outputs(order[i])[j].name) IN
                   /\ key \in DOMAIN TheRun.full_ir
                   /\ TheRun.full_ir[key] = Projected(i, j)
       /\ DOMAIN TheRun.full_ir = OwedKeys
       /\ Len(order) > 0 =>
            LET last == Len(order) IN
              /\ TheRun.out.k = "map"
              /\ DOMAIN TheRun.out.m =
                   {Outputs(order[last])[j].name : j \in 1..Len(Outputs(order[last]))}
              /\ \A j \in 1..Len(Outputs(order[last])) :
                   TheRun.out.m[Outputs(order[last])[j].name] = Projected(last, j)

\* the two-stage chain P1 -> P2 on the inputs url x, pattern x, repl A
C1_Witness ==
  /\ TheRun.mode = "chain"
  /\ TheRun.pc = "done"
  /\ chain.topo_order = <<"P1", "P2">>
  /\ TheRun.given = InputOf("x", "-", TRUE)
  /\ TheRun.full_ir["P1/text"] = Str("x")
  /\ TheRun.full_ir["P1/code"] = Str("200")
  /\ TheRun.full_ir["P2/text"] = Str("A")
  /\ TheRun.out = OutMap([k \in {"text"} |-> Str("A")])

\* C4: Processing a node fails with MissingIntermediate for a connection
\* exactly when the key "<src_node_id>/<src_out>" is absent from the IR map;
\* a key an upstream node has written, whatever value it projected, is bound
\* and raises nothing.
C4_MissingOnlyWhenAbsent ==
  (TheRun.mode = "chain" /\ TheRun.err.kind = "MissingIntermediate") =>
    \A key \in TheRun.err.info : key \notin DOMAIN TheRun.full_ir

\* C5: Shared-input routing. Whenever the callable of a node n is invoked
\* during Chain.call, the data map has data[k] = initial_inputs[k] for every
\* key k of initial_inputs that names a field of n, also when an incoming
\* edge feeds the field of that name; initial_inputs is never modified.
C5_SharedInputRouting ==
  TheRun.mode = "chain" =>
    /\ TheRun.inputs = TheRun.given
    /\ \A i \in 1..Len(TheRun.invoked) :
         LET call == TheRun.invoked[i] IN
           \A k \in DOMAIN TheRun.given :
             k \in Range(Fields(call.node)) =>
               (k \in DOMAIN call.data /\ call.data[k] = TheRun.given[k])

\* P1 and P3 both declare url; the edge P1 -> P3 feeds P1's code to P3's
\* url, and P3 still receives the caller's url
C5_Witness ==
  /\ TheRun.mode = "chain"
  /\ TheRun.pc = "done"
  /\ chain.edges = <<Edge("P1", "P3", <<<<"text", "text">>, <<"code", "url">>>>)>>
  /\ TheRun.given = InputOf("y", "-", FALSE)
  /\ TheRun.full_ir["P1/code"] = Str("200")
  /\ Len(TheRun.invoked) = 2
  /\ TheRun.invoked[1].data["url"] = Str("y")
  /\ TheRun.invoked[2].node = "P3"
  /\ TheRun.invoked[2].data["url"] = Str("y")

\* C6: Node.call on a data map with a key that is no field name of the node
\* fails with UnknownInputs naming exactly data.keys minus the field names,
\* and the callable is not invoked.
C6_UnknownInputs ==
  (/\ TheRun.mode = "node"
   /\ TheRun.pc # "call"
   /\ (DOMAIN TheRun.given) \ Range(Fields(TheRun.node)) # {}) =>
    /\ TheRun.pc = "done"
    /\ TheRun.err = Err("UnknownInputs", (DOMAIN TheRun.given) \ Range(Fields(TheRun.node)))
    /\ TheRun.invoked = <<>>

\* P1 declares url alone and is called with url, text and b
C6_Witness ==
  /\ TheRun.mode = "node"
  /\ TheRun.pc = "done"
  /\ TheRun.node = "P1"
  /\ DOMAIN TheRun.given = {"url", "text", "b"}
  /\ TheRun.err = Err("UnknownInputs", {"text", "b"})
  /\ TheRun.invoked = <<>>

\* the payload itself as the value returned
OutPayload(payload) == [k |-> "payload", p |-> payload]

\* C7: A successful Node.call returns the callable's payload unchanged when
\* project_outputs is false, and the mapping {o.name:
\* get_value_by_keys(payload, o._loc)} when it is true.
C7_ProjectOutputsFlag ==
  (TheRun.mode = "node" /\ TheRun.pc = "done" /\ TheRun.err = NoErr) =>
    IF TheRun.ret_fields
      THEN TheRun.out =
             OutMap([name \in {Outputs(TheRun.node)[j].name :
                                 j \in 1..Len(Outputs(TheRun.node))} |->
                       get_value_by_keys(TheRun.payload,
                         (CHOOSE o \in Range(Outputs(TheRun.node)) : o.name = name).loc)])
      ELSE TheRun.out = OutPayload(TheRun.payload)

\* C8, the state part: an error of a node's callable is the last invocation
\* of the execution, which has failed with that error; an execution with an
\* error of any kind has failed and returns nothing.
C8_Failed ==
  TheRun.mode = "chain" =>
    /\ \A i \in 1..Len(TheRun.invoked) :
         TheRun.invoked[i].err # "none" =>
           /\ i = Len(TheRun.invoked)
           /\ TheRun.pc = "failed"
           /\ TheRun.err = Err(TheRun.invoked[i].err, {})
    /\ (/\ TheRun.pc \notin {"loop", "call"}
        /\ TheRun.err.kind # "MissingIntermediate"
        /\ (DOMAIN TheRun.data) \ Range(Fields(TheRun.node)) # {}) =>
         (TheRun.pc = "failed" /\ TheRun.err.kind = "UnknownInputs")
    /\ TheRun.err # NoErr => TheRun.pc = "failed"

\* C8, the step part: a failed execution does nothing more; the caller gets
\* the error alone
C8_Halts ==
  TheRun.pc = "failed" => runs'["r1"] \in {TheRun, IdleRun}

\* C8: If the invocation of a node during Chain.call yields an error
\* (UnknownInputs, or an error returned or raised by the callable), the
\* execution fails with that error, no later node of topo_order is invoked
\* and neither an output nor the IR map is returned.
C8_ErrorsPropagate == []C8_Failed /\ [][C8_Halts]_vars

\* the line P1 -> P2 -> P3 with no pattern given: P2's callable raises and
\* P3 is never invoked
C8_Witness ==
  /\ TheRun.mode = "chain"
  /\ TheRun.pc = "failed"
  /\ chain.topo_order = <<"P1", "P2", "P3">>
  /\ Len(TheRun.invoked) = 2
  /\ TheRun.invoked[2].node = "P2"
  /\ TheRun.err = Err("TypeError", {})
  /\ "P1/text" \in DOMAIN TheRun.full_ir

\* C10: A Chain and its Nodes are read-only once constructed: every call,
\* successful or failing, leaves nodes, edges, topo_order and every Var,
\* the runtime value attribute included, as they were: the value of every
\* output Var stays as Var.__init__ set it.
C10_ReadOnly ==
  \A n \in NodeIds : \A j \in 1..Len(Outputs(n)) : varValue[n][j] = Null

(***************************************************************************)
(* Interleaved executions (SpecConc).                                      *)
(***************************************************************************)
\* what Chain.call(inputs) returns when it runs alone: the loop over
\* topo_order with no other execution between its steps
RECURSIVE AloneFrom(_, _, _, _)
AloneFrom(inputs, idx, full_ir, out) ==
  IF idx > Len(chain.topo_order) THEN [pc |-> "done", out |-> out, full_ir |-> full_ir]
  ELSE
    LET node_id == chain.topo_order[idx]
        outs == Outputs(node_id)
        b == BindIncoming(Incoming(chain.edges, node_id, 1), 1, full_ir, EmptyMap)
        data == SharedInputs(node_id, inputs, b.data)
        res == Fn(node_id, data)
        values == [j \in 1..Len(outs) |-> get_value_by_keys(res.payload, outs[j].loc)]
        failed == [pc |-> "failed", out |-> OutNone, full_ir |-> EmptyMap]
    IN IF b.err # NoErr THEN failed
       ELSE IF unknown_keys(node_id, data) # {} THEN failed
       ELSE IF res.err # "none" THEN failed
       ELSE IF \E j \in 1..Len(outs) : IsRaised(values[j]) THEN failed
       ELSE LET m == Collected(node_id, values) IN
         AloneFrom(inputs, idx + 1, WriteIR(full_ir, node_id, m, DOMAIN m), OutMap(m))

RunAlone(inputs) == AloneFrom(inputs, 1, EmptyMap, OutNone)

\* C9: Concurrent executions against the same Chain are safe: under every
\* interleaving of the steps of two Chain.call executions on one Chain,
\* each execution ends as it ends alone, returning the same output and the
\* same IR map.
C9_ConcurrentSafe ==
  \A r \in Runs :
    (runs[r].mode = "chain" /\ runs[r].pc \in {"done", "failed"}) =>
      LET alone == RunAlone(runs[r].given) IN
        /\ runs[r].pc = alone.pc
        /\ runs[r].pc = "done" =>
             (runs[r].out = alone.out /\ runs[r].full_ir = alone.full_ir)

(***************************************************************************)
(* Ordering within one execution (Spec).                                   *)
(***************************************************************************)
\* the IR keys of the declared outputs of the i-th node of topo_order
KeysOfNode(i) ==
  {IrKey(chain.topo_order[i], Outputs(chain.topo_order[i])[j].name) :
     j \in 1..Len(Outputs(chain.topo_order[i]))}

\* C11: Within one Chain.call the nodes are invoked one at a time in
\* topo_order, each at most once; when the inputs of a node are read and
\* when it is invoked, every output of every earlier node is in the IR map
\* and no output of a later node is: a node never observes only part of an
\* earlier node's outputs.
C11_SequentialOrder ==
  TheRun.mode = "chain" =>
    LET order == chain.topo_order
        log == TheRun.invoked
    IN /\ TheRun.idx \in 1..Len(order) + 1
       /\ Len(log) \in {TheRun.idx - 1, TheRun.idx} \cap 0..Len(order)
       /\ \A i \in 1..Len(log) : log[i].node = order[i]
       /\ TheRun.pc \in {"project", "write"} => Len(log) = TheRun.idx
       /\ TheRun.pc \in {"loop", "call"} => Len(log) = TheRun.idx - 1
       /\ \A i \in 1..Len(order) :
            /\ i < TheRun.idx => KeysOfNode(i) \subseteq DOMAIN TheRun.full_ir
            /\ i >= TheRun.idx => KeysOfNode(i) \cap DOMAIN TheRun.full_ir = {}
       /\ \A i \in 1..Len(log) :
            \A c \in Range(Incoming(chain.edges, order[i], 1)) :
              /\ c.req_key \in UNION {KeysOfNode(h) : h \in 1..i - 1}
              /\ c.field \notin DOMAIN TheRun.given =>
                   log[i].data[c.field] # Null

\* the fan-out P1 -> P2, P1 -> P3 at the invocation of P3: P1 and P2 have
\* written all their outputs, P3 none
C11_Witness ==
  /\ TheRun.mode = "chain"
  /\ TheRun.pc = "project"
  /\ chain.topo_order = <<"P1", "P2", "P3">>
  /\ TheRun.idx = 3
  /\ Len(TheRun.invoked) = 3
  /\ DOMAIN TheRun.full_ir = {"P1/text", "P1/code", "P2/text"}

(***************************************************************************)
(* Further properties of the constructor and of topological_sort           *)
(* (SpecTopo).                                                             *)
(***************************************************************************)
\* the ids that occur as source or target of an edge
IdsOf(edges) ==
  {edges[i].src_node_id : i \in 1..Len(edges)} \cup
  {edges[i].trg_node_id : i \in 1..Len(edges)}

\* C12: The construction fails with the missing-node error whenever the
\* edge list is acyclic and some edge names, as source or as target, an id
\* that is no key of nodes; when it succeeds, every id of topo_order is a
\* key of nodes.
C12_MissingNode ==
  /\ (/\ chain.status # "none"
      /\ ~HasCycle(chain.edges)
      /\ ~(IdsOf(chain.edges) \subseteq chain.nodes)) => chain.status = "MissingNode"
  /\ chain.status = "ok" => Range(chain.topo_order) \subseteq chain.nodes

\* P3 is the source of an edge and is not among the nodes
C12_Witness ==
  /\ chain.status = "MissingNode"
  /\ chain.nodes = {"P1", "P2"}
  /\ chain.edges = <<Edge("P1", "P2", <<>>), Edge("P3", "P2", <<>>)>>

\* the sources without an incoming edge, in the order of their first
\* appearance as the source of an edge
RECURSIVE FirstSources(_, _, _)
FirstSources(edges, i, found) ==
  IF i > Len(edges) THEN found
  ELSE LET src == edges[i].src_node_id IN
    FirstSources(edges, i + 1,
      IF /\ src \notin Range(found)
         /\ \A j \in 1..Len(edges) : edges[j].trg_node_id # src
        THEN Append(found, src) ELSE found)

\* the position of an id in a sequence without repetition
PosIn(order, n) == CHOOSE i \in 1..Len(order) : order[i] = n

\* the moment the in-degree of n reaches zero: the last of its incoming
\* edges to be relaxed, by the position of the edge's source in the order
\* and then by the place of the edge in the edge list
ReadyAt(edges, order, n) ==
  LET into == {j \in 1..Len(edges) : edges[j].trg_node_id = n}
      At(j) == PosIn(order, edges[j].src_node_id) * (Len(edges) + 1) + j
  IN CHOOSE t \in {At(j) : j \in into} : \A j \in into : At(j) <= t

\* C15: topological_sort is FIFO, hence a function of the edge list alone:
\* the order starts with the zero-in-degree sources in the order of their
\* first appearance as an edge source, and every later node stands in the
\* order in which its in-degree reached zero.
C15_FifoOrder ==
  chain.status = "ok" =>
    LET order == chain.topo_order
        seeds == FirstSources(chain.edges, 1, <<>>)
    IN /\ Len(seeds) <= Len(order)
       /\ SubSeq(order, 1, Len(seeds)) = seeds
       /\ \A i, j \in Len(seeds) + 1..Len(order) :
            i < j => ReadyAt(chain.edges, order, order[i]) < ReadyAt(chain.edges, order, order[j])

\* two sources seeded in edge order, P2 before P1, then their common target
C15_Witness ==
  /\ chain.status = "ok"
  /\ chain.edges = <<Edge("P2", "P3", <<>>), Edge("P1", "P3", <<>>)>>
  /\ chain.topo_order = <<"P2", "P1", "P3">>

\* C16: For every acyclic edge list, also with several edges between the
\* same pair and with nodes that are only targets, topological_sort raises
\* no NotDAGError and returns every id that occurs in an edge exactly once
\* and no other id.
C16_AcyclicSorted ==
  (chain.status # "none" /\ ~HasCycle(chain.edges)) =>
    /\ chain.status # "NotDAGError"
    /\ IdsOf(chain.edges) \subseteq chain.nodes =>
         /\ chain.status = "ok"
         /\ Range(chain.topo_order) = IdsOf(chain.edges)
         /\ Len(chain.topo_order) = Cardinality(IdsOf(chain.edges))

\* a doubled edge and a node that is only a target
C16_Witness ==
  /\ chain.status = "ok"
  /\ chain.edges = <<Edge("P1", "P2", <<>>), Edge("P1", "P2", <<>>), Edge("P2", "P3", <<>>)>>
  /\ chain.topo_order = <<"P1", "P2", "P3">>

(***************************************************************************)
(* Nodes outside topo_order (Spec).                                        *)
(***************************************************************************)
\* C17: Chain.call invokes only nodes of topo_order: a node of the nodes
\* mapping that no edge names is never invoked, and a Chain built with an
\* empty edge list invokes no node and returns a null output with an empty
\* IR map, whatever the inputs.
C17_OnlyTopoOrderInvoked ==
  TheRun.mode = "chain" =>
    /\ \A i \in 1..Len(TheRun.invoked) : TheRun.invoked[i].node \in IdsOf(chain.edges)
    /\ chain.edges = <<>> =>
         /\ TheRun.invoked = <<>>
         /\ TheRun.pc \in {"loop", "done"}
         /\ TheRun.out = OutNone
         /\ TheRun.full_ir = EmptyMap

\* the chain of three nodes and no edge, called with url, text, pattern and
\* repl
C17_Witness ==
  /\ TheRun.mode = "chain"
  /\ TheRun.pc = "done"
  /\ chain.nodes = NodeIds
  /\ chain.edges = <<>>
  /\ TheRun.given = InputOf("x", "x", TRUE)
  /\ TheRun.invoked = <<>>
  /\ TheRun.out = OutNone
  /\ TheRun.full_ir = EmptyMap

(***************************************************************************)
(* The nested-path accessors (SpecAcc): put_value_by_keys is applied to a  *)
(* structure, a path and a value drawn from bounded sets.                  *)
(***************************************************************************)
Leaves == {Null, Str("x")}

\* the mappings over some of the keys and the sequences up to a length,
\* with the elements given
Containers(elems, keys, maxlen) ==
  {Dict(f) : f \in UNION {[S -> elems] : S \in SUBSET keys}} \cup
  {List(q) : q \in UNION {[1..n -> elems] : n \in 0..maxlen}}

Inner == Containers(Leaves, {"a", "b"}, MaxLen)

Structures == Containers(Leaves \cup Inner, {"a"}, 1)

PathKeys == {SKey("a"), SKey("0"), IKey(0), IKey(1)}

Paths == UNION {[1..n -> PathKeys] : n \in 1..MaxPath}

AccProbe(o, p, v) ==
  [kind |-> "acc", obj0 |-> o, keys |-> p, value |-> v, obj |-> o, done |-> FALSE]

InitAcc ==
  /\ chain = NoChain
  /\ varValue = [n \in NodeIds |-> [j \in 1..Len(Outputs(n)) |-> Null]]
  /\ runs = [r \in Runs |-> IdleRun]
  /\ calls = 0
  /\ probe \in {AccProbe(o, p, v) : o \in Structures, p \in Paths, v \in {Str("v"), Dict(EmptyMap)}}

\* put_value_by_keys(obj, keys, value)
PutValue ==
  /\ probe.kind = "acc"
  /\ ~probe.done
  /\ probe' = [probe EXCEPT !.obj = put_value_by_keys(probe.obj, probe.keys, probe.value),
                            !.done = TRUE]
  /\ UNCHANGED <<chain, varValue, runs, calls>>

NextAcc == PutValue

SpecAcc == InitAcc /\ [][NextAcc]_vars

\* all of a path but its last step
Front(p) == SubSeq(p, 1, Len(p) - 1)

\* the terminal step of p addresses a mapping key or an in-bounds sequence
\* index: the parent of the leaf is a mapping, or a sequence with the last
\* step an index within it, or it is not there (absent, or no container)
\* and the container put makes for a string step is a mapping
WritableLeaf(o, p) ==
  LET parent == get_value_by_keys(o, Front(p))
      last == p[Len(p)]
  IN IF parent.t = "dict" THEN TRUE
     ELSE IF parent.t = "list" THEN last.k = "i" /\ 0 <= last.i /\ last.i < Len(parent.l)
     ELSE IF parent.t = "raised" THEN FALSE
     ELSE last.k = "s"

\* C13: Accessor inverse. For a structure o of mappings and sequences, a
\* non-empty path p with a writable leaf and a value v, after
\* put_value_by_keys(o, p, v) the call get_value_by_keys(o, p) returns v:
\* put creates the intermediate containers needed and replaces a
\* non-container at an intermediate position.
C13_AccessorInverse ==
  (probe.kind = "acc" /\ probe.done /\ WritableLeaf(probe.obj0, probe.keys)) =>
    get_value_by_keys(probe.obj, probe.keys) = probe.value

(***************************************************************************)
(* Output Vars from a return annotation (SpecVars): func_to_return_vars is *)
(* applied to a return schema and a returns mapping drawn from bounded     *)
(* sets.  A schema item is a Var not yet named; the returns mapping is the *)
(* sequence of its (name, location) pairs in insertion order.              *)
(***************************************************************************)
Unnamed == Var("", <<>>)

ArraySchema(k) == [type |-> "array", items |-> [i \in 1..k |-> Unnamed]]

StringSchema == [type |-> "string", items |-> <<>>]

RetOk(vs) == [ok |-> TRUE, err |-> "", vars |-> vs]

RetErr(kind) == [ok |-> FALSE, err |-> kind, vars |-> <<>>]

\* shape_ok: the annotation is Tuple[..., Optional[Exception]]; ret is
\* schema.items[0]
func_to_return_vars(shape_ok, ret, returns) ==
  IF ~shape_ok THEN RetErr("ValueError")
  ELSE IF ret.type = "array" THEN
    IF Len(returns) \notin {1, Len(ret.items)} THEN RetErr("AssertionError")
    ELSE
      LET first == IF Len(returns) = 1
                     THEN [ret.items EXCEPT ![1] = Var(returns[1].name, returns[1].loc)]
                     ELSE ret.items
          zipped == [i \in 1..Len(ret.items) |->
                       IF i <= Len(returns) THEN Var(returns[i].name, returns[i].loc)
                       ELSE first[i]]
      IN RetOk(zipped)
  ELSE
    IF Len(returns) # 1 THEN RetErr("AssertionError")
    ELSE RetOk(<<Var(returns[1].name, returns[1].loc)>>)

ReturnNames == {"a", "b", "c"}

ReturnLocs == {<<IKey(0)>>, <<SKey("x")>>}

\* the returns mappings: distinct names, each with a location
ReturnsMaps ==
  UNION {{q \in [1..n -> {Var(nm, lc) : nm \in ReturnNames, lc \in ReturnLocs}] :
            \A i, j \in 1..n : q[i].name = q[j].name => i = j} : n \in 0..MaxItems}

Schemas == {ArraySchema(k) : k \in 1..MaxItems} \cup {StringSchema}

RetProbe(shape_ok, ret, returns) ==
  [kind |-> "ret", shape_ok |-> shape_ok, ret |-> ret, returns |-> returns,
   result |-> RetErr(""), done |-> FALSE]

InitVars ==
  /\ chain = NoChain
  /\ varValue = [n \in NodeIds |-> [j \in 1..Len(Outputs(n)) |-> Null]]
  /\ runs = [r \in Runs |-> IdleRun]
  /\ calls = 0
  /\ probe \in {RetProbe(b, s, q) : b \in BOOLEAN, s \in Schemas, q \in ReturnsMaps}

\* func_to_return_vars(func, returns)
FuncToReturnVars ==
  /\ probe.kind = "ret"
  /\ ~probe.done
  /\ probe' = [probe EXCEPT !.result = func_to_return_vars(probe.shape_ok, probe.ret, probe.returns),
                            !.done = TRUE]
  /\ UNCHANGED <<chain, varValue, runs, calls>>

NextVars == FuncToReturnVars

SpecVars == InitVars /\ [][NextVars]_vars

\* C14: func_to_return_vars on an array payload schema with k items and a
\* returns mapping of size r: for r = 1 every returned Var carries the single
\* name, for r = k the i-th returned Var carries the i-th name and location,
\* for any other r it fails with the arity error; so every returned Var has a
\* non-empty name.
C14_ReturnVarsNamed ==
  (probe.kind = "ret" /\ probe.done /\ probe.shape_ok /\ probe.ret.type = "array") =>
    LET k == Len(probe.ret.items)
        r == Len(probe.returns)
        res == probe.result
    IN /\ r = 1 => /\ res.ok
                   /\ Len(res.vars) = k
                   /\ \A i \in 1..k : res.vars[i].name = probe.returns[1].name
       /\ r = k => /\ res.ok
                   /\ Len(res.vars) = k
                   /\ \A i \in 1..k : res.vars[i] = probe.returns[i]
       /\ r \notin {1, k} => ~res.ok /\ res.err = "AssertionError"
       /\ res.ok => \A i \in 1..Len(res.vars) : res.vars[i].name # ""

====
